---- MODULE Spec2Model ----
(***************************************************************************)
(* cz::dyn_array<T, alloc_t, SizeT, initial_cap, multiplier>               *)
(* (src/dyn_array.hpp), instantiated with the defaults: std::allocator,    *)
(* std::size_t, initial_cap = 8, multiplier = 2.                           *)
(*                                                                         *)
(* Two container objects, "A" and "B", live over one heap.  A heap block   *)
(* is a run of slots; a slot is raw storage, an object holding a value, or *)
(* an object whose value is unspecified (it was moved from).  Every        *)
(* operation of the class is an operator from program state to program     *)
(* state, written statement by statement after the source, and an action   *)
(* commits the result of one call.                                         *)
(***************************************************************************)
EXTENDS Integers, Sequences, FiniteSets, TLC

VARIABLES
    arr,      \* the container objects: m_begin, m_size, m_cap and whether the object exists
    heap,     \* the allocator's blocks, by address
    trap,     \* what went wrong so far: object-lifetime violations and tripped assertions
    ndebug,   \* the build: TRUE when assert() is compiled out (NDEBUG)
    pushed,   \* the values appended so far, in order (append runs only)
    cmp,      \* the operands and results of the last comparison (comparison runs only)
    trav,     \* the traversal in progress (traversal runs only)
    last      \* the last call made, with what it was given (single-container runs only)

core == <<arr, heap, trap, ndebug>>
vars == <<arr, heap, trap, ndebug, pushed, cmp, trav, last>>

---------------------------------------------------------------------------
\* Template arguments and bounds.

initial_cap == 8
multiplier == 2

\* The value T{} of a value-initialised element.
DefaultValue == 0

\* Element values the runs draw from.
Values == {0, 1}

\* Addresses the allocator hands out; two containers and one reallocation
\* in flight need three.
NumAddr == 3

\* Largest m_size the general runs grow a container to.
MaxSize == 2

\* Largest argument of reserve() in the general runs.
MaxReserve == 3

\* Number of appends in the append runs.
MaxPush == 12

\* Longest container of the remove_at runs, and the values they draw from.
MaxRemoveLen == 4
RemoveValues == {10, 20, 30, 40}

\* Longest operand of the comparison runs.
MaxCmpLen == 3

\* Longest container of the traversal runs, and the number of steps a
\* traversal is followed for.
MaxTravLen == 3
MaxTravSteps == 5

Names == {"A", "B"}
Null == 0
Addrs == 1..NumAddr

---------------------------------------------------------------------------
\* Storage.

Raw == [st |-> "raw", v |-> 0]
Obj(v) == [st |-> "obj", v |-> v]
Unspecified == [st |-> "unspec", v |-> 0]

IsObject(x) == x.st # "raw"

NoBlock == [used |-> FALSE, n |-> 0, slots |-> <<>>]
Block(n) == [used |-> TRUE, n |-> n, slots |-> [i \in 1..n |-> Raw]]

\* A container object that does not exist (before construction, after destruction).
NoArray == [alive |-> FALSE, m_begin |-> Null, m_size |-> 0, m_cap |-> 0]
\* The member initialisers: m_begin = nullptr, m_size = 0, m_cap = 0.
EmptyArray == [alive |-> TRUE, m_begin |-> Null, m_size |-> 0, m_cap |-> 0]

\* No element construction is set to fail.
NoFault == -1

\* The program state a call starts in.  Besides the program's variables it
\* carries what the call is given and what it leaves behind:
\*   oom     this call's allocate() throws std::bad_alloc;
\*   bad     the number of element constructions that succeed before one
\*           throws (NoFault: none throws);
\*   thrown  an exception is in flight: the class has no try block, so
\*           nothing more of the call is executed;
\*   log     the allocator calls made so far by this call, in order.
State ==
    [arr |-> arr, heap |-> heap, trap |-> trap, ndebug |-> ndebug,
     oom |-> FALSE, bad |-> NoFault, thrown |-> FALSE, log |-> <<>>]

\* The state s, with the faults this call meets.
Faulty(s, oom, bad) == [s EXCEPT !.oom = oom, !.bad = bad]

Commit(s) ==
    /\ arr' = s.arr
    /\ heap' = s.heap
    /\ trap' = s.trap
    /\ ndebug' = s.ndebug

\* The program is in state s.
Holds(s) ==
    /\ arr = s.arr
    /\ heap = s.heap
    /\ trap = s.trap
    /\ ndebug = s.ndebug

Trap(s, tag) == [s EXCEPT !.trap = @ \cup {tag}]

\* assert(cond, tag): a failed assert aborts a debug build and is no code at all
\* under NDEBUG.
AssertTags == {"assert_slice", "assert_fill"}
Aborted(s) == s.trap \cap AssertTags # {}
assert(s, cond, tag) == IF cond \/ s.ndebug THEN s ELSE Trap(s, tag)

\* std::allocator<T>::allocate returns a block no live block overlaps; the
\* lowest free address stands for it.  allocate(0) returns a block too.
NewAddr(h) == CHOOSE a \in Addrs : ~h[a].used /\ \A b \in Addrs : ~h[b].used => a <= b

\* The allocator call `call` with pointer p and count or index n is made; `of`
\* is the element count the block at p was allocated with (-1: p is no block).
Called(s, call, p, n) ==
    [s EXCEPT !.log = Append(@, [call |-> call, p |-> p, n |-> n,
                                 of |-> IF p \in Addrs /\ s.heap[p].used
                                        THEN s.heap[p].n ELSE -1])]

Throw(s) == [s EXCEPT !.thrown = TRUE]

allocate(s, p, n) ==
    IF s.thrown THEN s
    ELSE IF s.oom THEN Throw(s)
    ELSE Called([s EXCEPT !.heap[p] = Block(n)], "allocate", p, n)

deallocate(s, p, n) ==
    IF s.thrown THEN s
    ELSE [Called(s, "deallocate", p, n) EXCEPT !.heap[p] = NoBlock]

InBlock(s, p, i) == p # Null /\ s.heap[p].used /\ 0 <= i /\ i < s.heap[p].n

\* The slot at p + i.
slot(s, p, i) == IF InBlock(s, p, i) THEN s.heap[p].slots[i + 1] ELSE Raw

\* allocator.construct(p + i, x): placement-new of x into the slot.
\* T's constructor throws when s.bad has run down to 0.
construct(s, p, i, x) ==
    IF s.thrown THEN s
    ELSE IF s.bad = 0 THEN Throw(s)
    ELSE IF ~InBlock(s, p, i) THEN Trap(s, "wild_write")
    ELSE [Called(s, "construct", p, i) EXCEPT
              !.trap = IF IsObject(slot(s, p, i)) THEN @ \cup {"double_construct"} ELSE @,
              !.bad = IF @ > 0 THEN @ - 1 ELSE @,
              !.heap[p].slots[i + 1] = x]

\* allocator.destroy(p + i): the destructor call on the slot.
destroy(s, p, i) ==
    IF s.thrown THEN s
    ELSE IF ~InBlock(s, p, i) THEN Trap(s, "wild_write")
    ELSE [Called(s, "destroy", p, i) EXCEPT
              !.trap = IF IsObject(slot(s, p, i)) THEN @ ELSE @ \cup {"destroy_raw"},
              !.heap[p].slots[i + 1] = Raw]

\* What a copy or a move of the object in slot x constructs.
ValueOf(x) == IF x.st = "obj" THEN Obj(x.v) ELSE Unspecified

---------------------------------------------------------------------------
\* Private members.

\* Mutant: grows to exactly what is asked for.
grow_exact(cap, minimal_cap) == IF cap < minimal_cap THEN minimal_cap ELSE cap

\* while (cap < minimal_cap) cap *= multiplier;
RECURSIVE grow(_, _)
grow(cap, minimal_cap) ==
    IF cap < minimal_cap THEN grow(cap * multiplier, minimal_cap) ELSE cap

\* The assignments m_begin = p, m_size = n and m_cap = n, which like every
\* statement are not reached while an exception is in flight.
set_begin(s, c, p) == IF s.thrown THEN s ELSE [s EXCEPT !.arr[c].m_begin = p]
set_size(s, c, n) == IF s.thrown THEN s ELSE [s EXCEPT !.arr[c].m_size = n]
set_cap(s, c, n) == IF s.thrown THEN s ELSE [s EXCEPT !.arr[c].m_cap = n]

\* m_begin = m_allocator.allocate(n);
alloc_begin(s, c, n) == set_begin(allocate(s, NewAddr(s.heap), n), c, NewAddr(s.heap))

\* m_cap is set before allocate() is called; m_begin is assigned when it returns.
_set_cap_and_alloc(s, c, minimal_cap) ==
    LET cap == grow(IF s.arr[c].m_cap = 0 THEN initial_cap ELSE s.arr[c].m_cap, minimal_cap)
    IN alloc_begin(set_cap(s, c, cap), c, cap)

\* What T's move constructor leaves of its argument old_p[i].
moved_from(s, old_p, i) ==
    IF InBlock(s, old_p, i) /\ ~s.thrown
    THEN [s EXCEPT !.heap[old_p].slots[i + 1] = IF IsObject(@) THEN Unspecified ELSE Raw]
    ELSE s

\* for (i = from; i < m_size; ++i) construct(m_begin + i, std::move(old_p[i]));
RECURSIVE move_loop(_, _, _, _, _)
move_loop(s, old_p, p, i, size) ==
    IF i >= size \/ s.thrown THEN s
    ELSE LET x == slot(s, old_p, i)
             s1 == IF IsObject(x) THEN s ELSE Trap(s, "read_raw")
         IN move_loop(moved_from(construct(s1, p, i, ValueOf(x)), old_p, i),
                      old_p, p, i + 1, size)

\* if (old_p) deallocate(old_p, m_cap);
free_old(s, c, old_p) == IF old_p # Null THEN deallocate(s, old_p, s.arr[c].m_cap) ELSE s

\* Mutant: the elements are not carried over to the new block.
_realloc_no_move(s, c, size) ==
    set_cap(free_old(alloc_begin(s, c, size), c, s.arr[c].m_begin), c, size)

\* The loop of _realloc, from the old block old_p into the new m_begin.
move_all(s, c, old_p) == move_loop(s, old_p, s.arr[c].m_begin, 0, s.arr[c].m_size)

_realloc(s, c, size) ==
    set_cap(free_old(move_all(alloc_begin(s, c, size), c, s.arr[c].m_begin),
                     c, s.arr[c].m_begin),
            c, size)

\* Mutant: the growth loop is left out.
_set_cap_and_realloc_nogrow(s, c, minimal_cap) ==
    LET s1 == IF s.arr[c].m_cap = 0 THEN [s EXCEPT !.arr[c].m_cap = initial_cap] ELSE s
    IN _realloc(s1, c, s1.arr[c].m_cap)

_set_cap_and_realloc(s, c, minimal_cap) ==
    LET s1 == IF s.arr[c].m_cap = 0 THEN [s EXCEPT !.arr[c].m_cap = initial_cap] ELSE s
        new_cap == grow(s1.arr[c].m_cap, minimal_cap)
    IN _realloc(s1, c, new_cap)

\* for (it = m_begin + i; it != end(); ++it) construct(it, seq[i]);
RECURSIVE fill_loop(_, _, _, _, _)
fill_loop(s, p, i, size, seq) ==
    IF i >= size \/ s.thrown THEN s
    ELSE fill_loop(construct(s, p, i, seq[i + 1]), p, i + 1, size, seq)

_fill_with_val(s, c, value) ==
    LET s1 == assert(s, s.arr[c].m_begin # Null, "assert_fill")
    IN IF s.thrown THEN s
       ELSE IF Aborted(s1) THEN s1
       ELSE fill_loop(s1, s1.arr[c].m_begin, 0, s1.arr[c].m_size,
                      [k \in 1..s1.arr[c].m_size |-> Obj(value)])

\* The objects *f, *(f+1), ... the loop reads: seq, in order.
_fill_from_range_unchecked(s, c, seq) ==
    LET s1 == assert(s, s.arr[c].m_begin # Null, "assert_fill")
    IN IF s.thrown THEN s
       ELSE IF Aborted(s1) THEN s1
       ELSE fill_loop(s1, s1.arr[c].m_begin, 0, s1.arr[c].m_size, seq)

\* What reading [p + f, p + l) yields, as the values a copy constructs.
range(s, p, f, l) == [k \in 1..(l - f) |-> ValueOf(slot(s, p, f + k - 1))]

RECURSIVE destroy_loop(_, _, _, _)
destroy_loop(s, p, i, size) ==
    IF i >= size THEN s ELSE destroy_loop(destroy(s, p, i), p, i + 1, size)

_destroy_all(s, c) ==
    IF s.arr[c].m_begin = Null THEN s
    ELSE destroy_loop(s, s.arr[c].m_begin, 0, s.arr[c].m_size)

_dealloc(s, c) ==
    IF s.arr[c].m_begin = Null THEN s
    ELSE deallocate(s, s.arr[c].m_begin, s.arr[c].m_cap)

---------------------------------------------------------------------------
\* Constructors, destructor, assignment.

\* _fill_from_range_unchecked(other.m_begin)
fill_from(s, c, other) ==
    _fill_from_range_unchecked(s, c, range(s, s.arr[other].m_begin, 0, s.arr[c].m_size))

\* The end of a constructor: one left by an exception has made no object,
\* and no destructor will run for it.
constructed(s, c) == IF s.thrown THEN [s EXCEPT !.arr[c] = NoArray] ELSE s

\* dyn_array()
default_ctor(s, c) == [s EXCEPT !.arr[c] = EmptyArray]

\* dyn_array(count, value) and dyn_array(count), whose value is T{}
count_ctor(s, c, count, value) ==
    LET s0 == [s EXCEPT !.arr[c] = [EmptyArray EXCEPT !.m_size = count]]
    IN constructed(_fill_with_val(_set_cap_and_alloc(s0, c, count), c, value), c)

\* dyn_array(f, l) and dyn_array(initializer_list): seq is what [f, l) holds
range_ctor(s, c, seq) ==
    LET s0 == [s EXCEPT !.arr[c] = [EmptyArray EXCEPT !.m_size = Len(seq)]]
    IN constructed(
           _fill_from_range_unchecked(_set_cap_and_alloc(s0, c, s0.arr[c].m_size), c, seq), c)

\* Mutant: a shallow copy, the pointer is shared.
copy_ctor_shallow(s, c, other) ==
    [s EXCEPT !.arr[c] = [EmptyArray EXCEPT !.m_begin = s.arr[other].m_begin,
                                            !.m_size = s.arr[other].m_size,
                                            !.m_cap = s.arr[other].m_cap]]

\* dyn_array(dyn_array const& other)
copy_ctor(s, c, other) ==
    LET s0 == [s EXCEPT !.arr[c] = [EmptyArray EXCEPT !.m_size = s.arr[other].m_size]]
    IN constructed(fill_from(_set_cap_and_alloc(s0, c, s0.arr[other].m_cap), c, other), c)

\* Mutant: the source keeps its pointer, size and capacity.
move_ctor_no_reset(s, c, other) ==
    [s EXCEPT !.arr[c] = [EmptyArray EXCEPT !.m_begin = s.arr[other].m_begin,
                                            !.m_size = s.arr[other].m_size,
                                            !.m_cap = s.arr[other].m_cap]]

\* dyn_array(dyn_array&& other)
move_ctor(s, c, other) ==
    [s EXCEPT !.arr[c] = [EmptyArray EXCEPT !.m_begin = s.arr[other].m_begin,
                                            !.m_size = s.arr[other].m_size,
                                            !.m_cap = s.arr[other].m_cap],
              !.arr[other] = [@ EXCEPT !.m_begin = Null, !.m_size = 0, !.m_cap = 0]]

\* ~dyn_array()
\* Mutant: the buffer is released without destroying the elements.
dtor_no_destroy(s, c) ==
    LET s1 == IF s.arr[c].m_begin = Null THEN s
              ELSE deallocate(s, s.arr[c].m_begin, s.arr[c].m_cap)
    IN [s1 EXCEPT !.arr[c] = NoArray]

dtor(s, c) ==
    LET s1 == IF s.arr[c].m_begin = Null THEN s
              ELSE deallocate(destroy_loop(s, s.arr[c].m_begin, 0, s.arr[c].m_size),
                              s.arr[c].m_begin, s.arr[c].m_cap)
    IN [s1 EXCEPT !.arr[c] = NoArray]

\* if (m_cap < other.m_size) { _dealloc(); _set_cap_and_alloc(other.m_size); }
fresh_block(s, c, other) ==
    IF s.arr[c].m_cap < s.arr[other].m_size
    THEN _set_cap_and_alloc(_dealloc(s, c), c, s.arr[other].m_size)
    ELSE s

\* m_size = other.m_size;
size_from(s, c, other) == set_size(s, c, s.arr[other].m_size)

\* operator=(dyn_array const& other)
copy_assign(s, c, other) ==
    fill_from(size_from(fresh_block(_destroy_all(s, c), c, other), c, other), c, other)

\* m_begin = other.m_begin; m_size = other.m_size; m_cap = other.m_cap;
\* other.m_begin = nullptr; other.m_size = 0; other.m_cap = 0;
take(s, c, other) ==
    [s EXCEPT !.arr[c] = [@ EXCEPT !.m_begin = s.arr[other].m_begin,
                                   !.m_size = s.arr[other].m_size,
                                   !.m_cap = s.arr[other].m_cap],
              !.arr[other] = [@ EXCEPT !.m_begin = Null, !.m_size = 0, !.m_cap = 0]]

\* operator=(dyn_array&& other)
move_assign(s, c, other) == take(_dealloc(_destroy_all(s, c), c), c, other)

---------------------------------------------------------------------------
\* Public members.

reserve(s, c, n) == IF s.arr[c].m_cap < n THEN _realloc(s, c, n) ELSE s

\* Mutant: the request is ignored.
shrink_to_fit_ignored(s, c) == s

shrink_to_fit(s, c) ==
    IF s.arr[c].m_size < s.arr[c].m_cap THEN _realloc(s, c, s.arr[c].m_size) ELSE s

\* return std::move(m_begin[--m_size]);
pop_back(s, c) ==
    LET s1 == [s EXCEPT !.arr[c].m_size = @ - 1]
        p == s1.arr[c].m_begin
        i == s1.arr[c].m_size
    IN IF InBlock(s1, p, i) THEN [s1 EXCEPT !.heap[p].slots[i + 1] = Unspecified] ELSE s1

\* m_begin[idx] = std::move(m_begin[idx + 1]);
RECURSIVE shift_loop(_, _, _, _)
shift_loop(s, p, idx, end) ==
    IF idx >= end \/ ~InBlock(s, p, idx + 1) THEN s
    ELSE shift_loop([s EXCEPT !.heap[p].slots[idx + 1] = ValueOf(slot(s, p, idx + 1)),
                              !.heap[p].slots[idx + 2] = Unspecified],
                    p, idx + 1, end)

\* Mutant: the last element is moved into the hole (swap-remove).
remove_at_swap(s, c, idx) ==
    LET s1 == [s EXCEPT !.arr[c].m_size = @ - 1]
        p == s1.arr[c].m_begin
        end == s1.arr[c].m_size
    IN IF idx < end /\ InBlock(s1, p, end)
       THEN [s1 EXCEPT !.heap[p].slots[idx + 1] = ValueOf(slot(s1, p, end)),
                       !.heap[p].slots[end + 1] = Unspecified]
       ELSE s1

remove_at(s, c, idx) ==
    LET s1 == [s EXCEPT !.arr[c].m_size = @ - 1]
    IN shift_loop(s1, s1.arr[c].m_begin, idx, s1.arr[c].m_size)

\* for (i = m_size; i < n; ++i) construct(m_begin + i);
RECURSIVE default_loop(_, _, _, _)
default_loop(s, p, i, n) ==
    IF i >= n \/ s.thrown THEN s
    ELSE default_loop(construct(s, p, i, Obj(DefaultValue)), p, i + 1, n)

\* for (i = n; i < m_size; ++i) destroy(m_begin + i);
destroy_from(s, c, n) == destroy_loop(s, s.arr[c].m_begin, n, s.arr[c].m_size)

\* for (i = m_size; i < n; ++i) construct(m_begin + i);
default_upto(s, c, n) == default_loop(s, s.arr[c].m_begin, s.arr[c].m_size, n)

\* Mutant: the capacity grows as in push_back, by doubling.
resize_doubling(s, c, n) ==
    set_size(default_upto(destroy_from(IF s.arr[c].m_cap < n
                                       THEN _set_cap_and_realloc(s, c, n) ELSE s,
                                       c, n),
                          c, n),
             c, n)

resize(s, c, n) ==
    set_size(default_upto(destroy_from(IF s.arr[c].m_cap < n THEN _realloc(s, c, n) ELSE s,
                                       c, n),
                          c, n),
             c, n)

clear(s, c) == [_destroy_all(s, c) EXCEPT !.arr[c].m_size = 0]

\* operator[](std::pair idxes) const and slice(f, l): the result is container d
slice(s, c, d, f, l) ==
    LET s1 == assert(s, f <= l /\ f < s.arr[c].m_size /\ l <= s.arr[c].m_size, "assert_slice")
    IN IF Aborted(s1) THEN s1
       ELSE range_ctor(s1, d, range(s1, s1.arr[c].m_begin, f, l))

\* operator[](idx) = v
index_assign(s, c, idx, v) ==
    LET p == s.arr[c].m_begin
    IN IF InBlock(s, p, idx) THEN [s EXCEPT !.heap[p].slots[idx + 1] = Obj(v)]
       ELSE Trap(s, "wild_write")

\* construct(m_begin + m_size++, arg): the increment of m_size is an argument's
\* side effect, complete before construct() is entered.
construct_at_end(s, c, v) ==
    construct(set_size(s, c, s.arr[c].m_size + 1), s.arr[c].m_begin, s.arr[c].m_size, Obj(v))

push_back(s, c, v) ==
    construct_at_end(IF s.arr[c].m_size = s.arr[c].m_cap
                     THEN _set_cap_and_realloc(s, c, s.arr[c].m_size + 1)
                     ELSE s,
                     c, v)

\* size(), cap(), operator[](idx) const
size(s, c) == s.arr[c].m_size
cap(s, c) == s.arr[c].m_cap
index(s, c, idx) == slot(s, s.arr[c].m_begin, idx)

---------------------------------------------------------------------------
\* Comparison.

\* std::less, std::greater, std::less_equal, std::greater_equal on two values.
cmp_type(kind, x, y) ==
    CASE kind = "less" -> x < y
      [] kind = "greater" -> x > y
      [] kind = "less_equal" -> x <= y
      [] kind = "greater_equal" -> x >= y

\* std::lexicographical_compare(first1, last1, first2, last2, comp), the ranges
\* given as the sequences xs and ys, from position i on:
\*   for (; first1 != last1 && first2 != last2; ++first1, ++first2) {
\*       if (comp(*first1, *first2)) return true;
\*       if (comp(*first2, *first1)) return false;
\*   }
\*   return first1 == last1 && first2 != last2;
RECURSIVE lexicographical_compare(_, _, _, _)
lexicographical_compare(xs, ys, i, kind) ==
    IF i <= Len(xs) /\ i <= Len(ys)
    THEN IF cmp_type(kind, xs[i], ys[i]) THEN TRUE
         ELSE IF cmp_type(kind, ys[i], xs[i]) THEN FALSE
         ELSE lexicographical_compare(xs, ys, i + 1, kind)
    ELSE i > Len(xs) /\ i <= Len(ys)

\* The values [begin(), end()) of container c runs over.
elements(s, c) == [k \in 1..s.arr[c].m_size |-> slot(s, s.arr[c].m_begin, k - 1).v]

_lex_cmp(s, c, other, kind) ==
    lexicographical_compare(elements(s, c), elements(s, other), 1, kind)

operator_less(s, c, other) == _lex_cmp(s, c, other, "less")
operator_greater(s, c, other) == _lex_cmp(s, c, other, "greater")
operator_less_equal(s, c, other) == _lex_cmp(s, c, other, "less_equal")
operator_greater_equal(s, c, other) == _lex_cmp(s, c, other, "greater_equal")

---------------------------------------------------------------------------
\* Iterators, as offsets from m_begin.  A reverse iterator holds the offset of
\* its base; it dereferences the element before the base and steps by moving
\* the base down.

begin(s, c) == 0
end(s, c) == s.arr[c].m_size
rbegin(s, c) == begin(s, c)
rend(s, c) == end(s, c)

---------------------------------------------------------------------------
\* Actions: one call each, within the documented preconditions.

DefaultCtor(c) ==
    /\ ~arr[c].alive
    /\ Commit(default_ctor(State, c))

CountCtor(c, count, v) ==
    /\ ~arr[c].alive
    /\ Commit(count_ctor(State, c, count, v))

InitListCtor(c, seq) ==
    /\ ~arr[c].alive
    /\ Commit(range_ctor(State, c, [k \in 1..Len(seq) |-> Obj(seq[k])]))

CopyCtor(c, other) ==
    /\ c # other
    /\ ~arr[c].alive
    /\ arr[other].alive
    /\ Commit(copy_ctor(State, c, other))

MoveCtor(c, other) ==
    /\ c # other
    /\ ~arr[c].alive
    /\ arr[other].alive
    /\ Commit(move_ctor(State, c, other))

Dtor(c) ==
    /\ arr[c].alive
    /\ Commit(dtor(State, c))

CopyAssign(c, other) ==
    /\ c # other
    /\ arr[c].alive
    /\ arr[other].alive
    /\ Commit(copy_assign(State, c, other))

MoveAssign(c, other) ==
    /\ c # other
    /\ arr[c].alive
    /\ arr[other].alive
    /\ Commit(move_assign(State, c, other))

Reserve(c, n) ==
    /\ arr[c].alive
    /\ Commit(reserve(State, c, n))

ShrinkToFit(c) ==
    /\ arr[c].alive
    /\ Commit(shrink_to_fit(State, c))

PushBack(c, v) ==
    /\ arr[c].alive
    /\ Commit(push_back(State, c, v))

PopBack(c) ==
    /\ arr[c].alive
    /\ arr[c].m_size > 0
    /\ Commit(pop_back(State, c))

RemoveAt(c, idx) ==
    /\ arr[c].alive
    /\ idx < arr[c].m_size
    /\ Commit(remove_at(State, c, idx))

Resize(c, n) ==
    /\ arr[c].alive
    /\ Commit(resize(State, c, n))

Clear(c) ==
    /\ arr[c].alive
    /\ Commit(clear(State, c))

\* d = c.slice(f, l), for the bounds the documentation allows: f <= l <= size.
Slice(c, d, f, l) ==
    /\ c # d
    /\ arr[c].alive
    /\ ~arr[d].alive
    /\ f <= l
    /\ l <= arr[c].m_size
    /\ Commit(slice(State, c, d, f, l))

IndexAssign(c, idx, v) ==
    /\ arr[c].alive
    /\ idx < arr[c].m_size
    /\ Commit(index_assign(State, c, idx, v))

---------------------------------------------------------------------------
\* Values of the bookkeeping variables while they are not in use.

NoCmp == [done |-> FALSE]
NoTrav == [kind |-> "none", it |-> 0, seen |-> <<>>, done |-> FALSE]
NoCall == [op |-> "none"]

\* Sequences over S of length at most n.
SeqsUpTo(S, n) == UNION {[1..k -> S] : k \in 0..n}

---------------------------------------------------------------------------
\* General runs: every public operation on two containers, from no container.

Init ==
    /\ arr = [c \in Names |-> NoArray]
    /\ heap = [a \in Addrs |-> NoBlock]
    /\ trap = {}
    /\ ndebug \in BOOLEAN
    /\ pushed = <<>>
    /\ cmp = NoCmp
    /\ trav = NoTrav
    /\ last = NoCall

\* A call of the general runs: the program has not aborted, and the
\* bookkeeping of the other runs stays as it is.
Quiet == ~Aborted(State) /\ UNCHANGED <<pushed, cmp, trav, last>>

Next ==
    \E c \in Names :
        \/ DefaultCtor(c) /\ Quiet
        \/ \E n \in 0..MaxSize, v \in Values : CountCtor(c, n, v) /\ Quiet
        \/ \E seq \in SeqsUpTo(Values, MaxSize) : InitListCtor(c, seq) /\ Quiet
        \/ \E o \in Names : CopyCtor(c, o) /\ Quiet
        \/ \E o \in Names : MoveCtor(c, o) /\ Quiet
        \/ Dtor(c) /\ Quiet
        \/ \E o \in Names : CopyAssign(c, o) /\ Quiet
        \/ \E o \in Names : MoveAssign(c, o) /\ Quiet
        \/ \E n \in 0..MaxReserve : Reserve(c, n) /\ Quiet
        \/ ShrinkToFit(c) /\ Quiet
        \/ \E v \in Values : arr[c].m_size < MaxSize /\ PushBack(c, v) /\ Quiet
        \/ PopBack(c) /\ Quiet
        \/ \E idx \in 0..MaxSize : RemoveAt(c, idx) /\ Quiet
        \/ \E n \in 0..MaxSize : Resize(c, n) /\ Quiet
        \/ Clear(c) /\ Quiet
        \/ \E d \in Names, f \in 0..MaxSize, l \in 0..MaxSize : Slice(c, d, f, l) /\ Quiet
        \/ \E idx \in 0..MaxSize, v \in Values : IndexAssign(c, idx, v) /\ Quiet

Spec == Init /\ [][Next]_vars

\* The elements of container c, slot by slot, in the current state.
Contents(c) == [k \in 1..arr[c].m_size |-> slot(State, arr[c].m_begin, k - 1)]

\* The block container c points to.
BlockOf(c) == IF arr[c].m_begin = Null THEN NoBlock ELSE heap[arr[c].m_begin]

\* C1: after every call, size() <= cap() for every container that exists.
C1_SizeLeCap ==
    \A c \in Names : arr[c].alive => size(State, c) <= cap(State, c)

\* C1 witness: one container grown by push_back until full (1 -> 2 slots), the
\* other built with the initial capacity.
C1_Witness ==
    \E a, b \in Names :
        /\ arr[a].alive /\ arr[a].m_size = 2 /\ arr[a].m_cap = 2
        /\ arr[b].alive /\ arr[b].m_size = 2 /\ arr[b].m_cap = initial_cap

\* C2: exactly the slots [0, size) hold an object, the slots [size, capacity)
\* are raw, no slot is constructed twice and no raw slot is destroyed.
C2_SlotsMatchSize ==
    /\ "double_construct" \notin trap
    /\ "destroy_raw" \notin trap
    /\ \A c \in Names :
           (arr[c].alive /\ arr[c].m_begin # Null) =>
               \A i \in 0..(BlockOf(c).n - 1) :
                   IsObject(slot(State, arr[c].m_begin, i)) <=> i < arr[c].m_size

\* The elements of container c and the block it points to, in state s.
ContentsIn(s, c) == [k \in 1..s.arr[c].m_size |-> slot(s, s.arr[c].m_begin, k - 1)]
BlockIn(s, c) == IF s.arr[c].m_begin = Null THEN NoBlock ELSE s.heap[s.arr[c].m_begin]

\* The move of a into b that state s allows: construction when b does not
\* exist, assignment when it does.
MoveInto(s, b, a) == IF s.arr[b].alive THEN move_assign(s, b, a) ELSE move_ctor(s, b, a)

\* C5: a move (construction or assignment) of a into b leaves a with size 0,
\* capacity 0 and a null pointer, and b with a's pointer, size, capacity and
\* elements, the block untouched; destroying or appending to the moved-from a
\* afterwards leaves b and b's block as they are.
C5_MoveLeavesSourceEmpty ==
    \A a, b \in Names :
        (a # b /\ arr[a].alive /\ ~Aborted(State)) =>
            LET m == MoveInto(State, b, a)
                d == dtor(m, a)
            IN /\ m.arr[a] = EmptyArray
               /\ m.arr[b] = arr[a]
               /\ BlockIn(m, b) = BlockOf(a)
               /\ ContentsIn(m, b) = Contents(a)
               /\ d.arr[b] = m.arr[b]
               /\ BlockIn(d, b) = BlockIn(m, b)
               /\ \A v \in Values :
                      LET q == push_back(m, a, v)
                      IN /\ q.arr[b] = m.arr[b]
                         /\ BlockIn(q, b) = BlockIn(m, b)
                         /\ q.arr[a].m_begin # Null
                         /\ q.arr[a].m_begin # q.arr[b].m_begin
                         /\ ContentsIn(q, a) = <<Obj(v)>>

\* C5 witness: B holds [0, 1] in the only block there is and A is alive,
\* empty and null: the state a move of A = [0, 1] into B leaves.
C5_Witness ==
    /\ arr["A"] = EmptyArray
    /\ arr["B"].alive /\ arr["B"].m_begin # Null
    /\ Contents("B") = <<Obj(0), Obj(1)>>
    /\ Cardinality({p \in Addrs : heap[p].used}) = 1

\* Container a and its block are in state s2 what they are now.
Untouched(s2, a) == s2.arr[a] = arr[a] /\ BlockIn(s2, a) = BlockOf(a)

\* Every mutating call on container b in state s (push_back, pop_back,
\* remove_at, resize, clear, an element write, destruction) leaves a untouched.
MutationsKeep(s, b, a) ==
    /\ \A v \in Values : Untouched(push_back(s, b, v), a)
    /\ (s.arr[b].m_size > 0 => Untouched(pop_back(s, b), a))
    /\ \A idx \in 0..(s.arr[b].m_size - 1) : Untouched(remove_at(s, b, idx), a)
    /\ \A n \in 0..MaxSize : Untouched(resize(s, b, n), a)
    /\ Untouched(clear(s, b), a)
    /\ \A idx \in 0..(s.arr[b].m_size - 1), v \in Values :
           Untouched(index_assign(s, b, idx, v), a)
    /\ Untouched(dtor(s, b), a)

\* The copy of a into b that state s allows.
CopyInto(s, b, a) == IF s.arr[b].alive THEN copy_assign(s, b, a) ELSE copy_ctor(s, b, a)

\* C6: a copy (construction or assignment) of a into b leaves a and a's block
\* unchanged and gives b a block that is not a's; every mutation of b, right
\* after the copy and in every later state, leaves a's pointer, size,
\* capacity and block unchanged.
C6_CopyIndependent ==
    \A a, b \in Names :
        (a # b /\ arr[a].alive /\ ~Aborted(State)) =>
            LET k == CopyInto(State, b, a)
            IN /\ k.arr[a] = arr[a]
               /\ BlockIn(k, a) = BlockOf(a)
               /\ (k.arr[b].m_begin # Null => k.arr[b].m_begin # k.arr[a].m_begin)
               /\ (~Aborted(k) => MutationsKeep(k, b, a))
               /\ (arr[b].alive => MutationsKeep(State, b, a))

\* C6 witness: A holds [0, 1]; B, in a block of its own of the same capacity,
\* holds A's first element and a popped second one.
C6_Witness ==
    /\ arr["A"].alive /\ arr["B"].alive
    /\ arr["A"].m_begin # Null /\ arr["B"].m_begin # Null
    /\ arr["A"].m_begin # arr["B"].m_begin
    /\ arr["A"].m_cap = arr["B"].m_cap
    /\ Contents("A") = <<Obj(0), Obj(1)>>
    /\ Contents("B") = <<Obj(0)>>
    /\ slot(State, arr["B"].m_begin, 1) = Unspecified

\* C8: no slice with first <= last <= size trips an assertion.
C8_SliceNeverAsserts == "assert_slice" \notin trap

---------------------------------------------------------------------------
\* Append runs: push_back alone on a default-constructed container.

InitAppend ==
    /\ arr = [c \in Names |-> IF c = "A" THEN EmptyArray ELSE NoArray]
    /\ heap = [a \in Addrs |-> NoBlock]
    /\ trap = {}
    /\ ndebug \in BOOLEAN
    /\ pushed = <<>>
    /\ cmp = NoCmp
    /\ trav = NoTrav
    /\ last = NoCall

AppendStep ==
    \E v \in Values :
        /\ Len(pushed) < MaxPush
        /\ PushBack("A", v)
        /\ pushed' = Append(pushed, v)
        /\ UNCHANGED <<cmp, trav, last>>

NextAppend == AppendStep

SpecAppend == InitAppend /\ [][NextAppend]_vars

\* C3: after the appends of v0 .. v(N-1) to a default-constructed container,
\* size() is N and operator[](i) is vi for every i < N.
C3_AppendCorrect ==
    /\ size(State, "A") = Len(pushed)
    /\ \A i \in 0..(Len(pushed) - 1) : index(State, "A", i) = Obj(pushed[i + 1])

\* C3 witness: nine appends of both values, the ninth after the reallocation
\* from 8 to 16 slots.
C3_Witness ==
    /\ Len(pushed) = 9
    /\ pushed[1] = 1 /\ pushed[2] = 0 /\ pushed[9] = 1
    /\ index(State, "A", 0) = Obj(1)
    /\ index(State, "A", 8) = Obj(1)
    /\ BlockOf("A").n = 16

RECURSIVE Power(_, _)
Power(b, j) == IF j = 0 THEN 1 ELSE b * Power(b, j - 1)

\* The smallest initial_cap * multiplier^j that is at least k.
SmallestCap(k) ==
    LET caps == {initial_cap * Power(multiplier, j) : j \in 0..k}
    IN CHOOSE x \in caps : x >= k /\ \A y \in caps : y >= k => x <= y

\* C4: after k >= 1 appends to a default-constructed container, cap() is the
\* smallest 8 * 2^j that is at least k: 8 after 1..8 appends, 16 after the 9th.
C4_GrowthByDoubling ==
    Len(pushed) >= 1 =>
        /\ cap(State, "A") = SmallestCap(Len(pushed))
        /\ (Len(pushed) <= 8 => cap(State, "A") = 8)
        /\ (Len(pushed) = 9 => cap(State, "A") = 16)

\* C4 witness: the ninth append has happened and the capacity is 16.
C4_Witness == Len(pushed) = 9 /\ cap(State, "A") = 16 /\ size(State, "A") = 9

---------------------------------------------------------------------------
\* A state with the two containers built from the sequences xs and ys by the
\* initializer-list constructor, in a build with or without assertions.

NoState(nd) ==
    [arr |-> [c \in Names |-> NoArray], heap |-> [a \in Addrs |-> NoBlock],
     trap |-> {}, ndebug |-> nd,
     oom |-> FALSE, bad |-> NoFault, thrown |-> FALSE, log |-> <<>>]

Objects(seq) == [k \in 1..Len(seq) |-> Obj(seq[k])]

BuiltOne(nd, xs) == range_ctor(NoState(nd), "A", Objects(xs))
BuiltTwo(nd, xs, ys) == range_ctor(BuiltOne(nd, xs), "B", Objects(ys))

\* The values a container holds, in order.
ValuesOf(c) == [k \in 1..arr[c].m_size |-> slot(State, arr[c].m_begin, k - 1).v]

---------------------------------------------------------------------------
\* remove_at runs: one container built from an initializer list, then
\* remove_at, pop_back and shrink_to_fit in any order.

InitRemove ==
    \E nd \in BOOLEAN, xs \in SeqsUpTo(RemoveValues, MaxRemoveLen) :
        /\ Holds(BuiltOne(nd, xs))
        /\ pushed = <<>>
        /\ cmp = NoCmp
        /\ trav = NoTrav
        /\ last = NoCall

RemoveStep ==
    \E idx \in 0..MaxRemoveLen :
        /\ RemoveAt("A", idx)
        /\ last' = [op |-> "remove_at", idx |-> idx, before |-> ValuesOf("A"),
                    cap |-> arr["A"].m_cap]

PopStep == PopBack("A") /\ last' = NoCall

ShrinkStep == ShrinkToFit("A") /\ last' = NoCall

NextRemove ==
    \/ RemoveStep /\ UNCHANGED <<pushed, cmp, trav>>
    \/ PopStep /\ UNCHANGED <<pushed, cmp, trav>>
    \/ ShrinkStep /\ UNCHANGED <<pushed, cmp, trav>>

SpecRemove == InitRemove /\ [][NextRemove]_vars

\* seq without its element at 0-based index idx.
Without(seq, idx) ==
    [k \in 1..(Len(seq) - 1) |-> IF k <= idx THEN seq[k] ELSE seq[k + 1]]

\* C7: remove_at(i) on contents e0 .. e(n-1), i < n, leaves size n - 1, the
\* contents e0 .. e(i-1), e(i+1) .. e(n-1) in that order, and the capacity.
C7_RemoveAtKeepsOrder ==
    last.op = "remove_at" =>
        /\ size(State, "A") = Len(last.before) - 1
        /\ cap(State, "A") = last.cap
        /\ \A i \in 0..(size(State, "A") - 1) :
               index(State, "A", i) = Obj(Without(last.before, last.idx)[i + 1])

\* C7 witness: index 1 removed from [10, 20, 30, 40], leaving [10, 30, 40].
C7_Witness ==
    /\ last.op = "remove_at" /\ last.idx = 1
    /\ last.before = <<10, 20, 30, 40>>
    /\ ValuesOf("A") = <<10, 30, 40>>
    /\ size(State, "A") = 3

---------------------------------------------------------------------------
\* Comparison runs: two containers built from initializer lists, compared
\* either way round and each with itself.

InitCmp ==
    \E nd \in BOOLEAN, xs \in SeqsUpTo(Values, MaxCmpLen), ys \in SeqsUpTo(Values, MaxCmpLen) :
        /\ Holds(BuiltTwo(nd, xs, ys))
        /\ pushed = <<>>
        /\ cmp = NoCmp
        /\ trav = NoTrav
        /\ last = NoCall

Compare(a, b) ==
    /\ arr[a].alive
    /\ arr[b].alive
    /\ cmp' = [done |-> TRUE, a |-> a, b |-> b,
               lt |-> operator_less(State, a, b),
               gt |-> operator_greater(State, a, b),
               le |-> operator_less_equal(State, a, b),
               ge |-> operator_greater_equal(State, a, b)]
    /\ UNCHANGED <<arr, heap, trap, ndebug>>

NextCmp == \E a, b \in Names : Compare(a, b) /\ UNCHANGED <<pushed, trav, last>>

SpecCmp == InitCmp /\ [][NextCmp]_vars

\* xs is before ys in the lexicographic order that element-wise < drives: at
\* the first position where they differ xs has the smaller element, or xs ends
\* there and ys does not.
LexLess(xs, ys) ==
    \E k \in 0..Len(xs) :
        /\ k <= Len(ys)
        /\ \A j \in 1..k : xs[j] = ys[j]
        /\ \/ k = Len(xs) /\ k < Len(ys)
           \/ k < Len(xs) /\ k < Len(ys) /\ xs[k + 1] < ys[k + 1]

\* C9: a < b, a > b, a <= b and a >= b are the lexicographic comparison:
\* a < b iff LexLess(a, b), a > b iff LexLess(b, a), a <= b iff not
\* LexLess(b, a), a >= b iff not LexLess(a, b).
C9_OrderingIsLexicographic ==
    cmp.done =>
        /\ cmp.lt = LexLess(ValuesOf(cmp.a), ValuesOf(cmp.b))
        /\ cmp.gt = LexLess(ValuesOf(cmp.b), ValuesOf(cmp.a))
        /\ cmp.le = ~LexLess(ValuesOf(cmp.b), ValuesOf(cmp.a))
        /\ cmp.ge = ~LexLess(ValuesOf(cmp.a), ValuesOf(cmp.b))

---------------------------------------------------------------------------
\* Traversal runs: one container built from an initializer list, walked from
\* begin() to end() or from rbegin() to rend().  trav.seen lists the
\* offsets dereferenced so far.

InitTrav ==
    \E nd \in BOOLEAN, xs \in SeqsUpTo(Values, MaxTravLen) :
        /\ Holds(BuiltOne(nd, xs))
        /\ pushed = <<>>
        /\ cmp = NoCmp
        /\ trav = NoTrav
        /\ last = NoCall

\* for (it = begin(); ...
StartForward ==
    /\ trav.kind = "none"
    /\ trav' = [kind |-> "forward", it |-> begin(State, "A"), seen |-> <<>>, done |-> FALSE]

\* ... it != end(); ++it) *it;
StepForward ==
    /\ trav.kind = "forward"
    /\ ~trav.done
    /\ IF trav.it # end(State, "A")
       THEN trav' = [trav EXCEPT !.seen = Append(@, trav.it), !.it = @ + 1]
       ELSE trav' = [trav EXCEPT !.done = TRUE]

\* for (it = rbegin(); ...
StartReverse ==
    /\ trav.kind = "none"
    /\ trav' = [kind |-> "reverse", it |-> rbegin(State, "A"), seen |-> <<>>, done |-> FALSE]

\* ... it != rend(); ++it) *it;
StepReverse ==
    /\ trav.kind = "reverse"
    /\ ~trav.done
    /\ IF trav.it # rend(State, "A")
       THEN trav' = [trav EXCEPT !.seen = Append(@, trav.it - 1), !.it = @ - 1]
       ELSE trav' = [trav EXCEPT !.done = TRUE]

\* The traversal is followed for MaxTravSteps dereferences.
Followed == Len(trav.seen) < MaxTravSteps

NextTrav ==
    \/ StartForward /\ UNCHANGED <<arr, heap, trap, ndebug, pushed, cmp, last>>
    \/ StepForward /\ Followed /\ UNCHANGED <<arr, heap, trap, ndebug, pushed, cmp, last>>
    \/ StartReverse /\ UNCHANGED <<arr, heap, trap, ndebug, pushed, cmp, last>>
    \/ StepReverse /\ Followed /\ UNCHANGED <<arr, heap, trap, ndebug, pushed, cmp, last>>

SpecTrav == InitTrav /\ [][NextTrav]_vars

\* C10: a traversal dereferences only offsets in [0, size); when it ends, a
\* forward one has seen 0, 1, .., size-1 and a reverse one size-1, .., 1, 0.
C10_TraversalInOrder ==
    trav.kind # "none" =>
        /\ \A k \in 1..Len(trav.seen) : 0 <= trav.seen[k] /\ trav.seen[k] < size(State, "A")
        /\ (trav.done /\ trav.kind = "forward") =>
               trav.seen = [k \in 1..size(State, "A") |-> k - 1]
        /\ (trav.done /\ trav.kind = "reverse") =>
               trav.seen = [k \in 1..size(State, "A") |-> size(State, "A") - k]

---------------------------------------------------------------------------
\* Recorded runs: container "A" is constructed, operated on and destroyed,
\* one call at a time, beside a container "B" that is built once from an
\* initializer list and is the source of the copies and slices.  `last`
\* keeps the call just made: its name, its input sequence, the faults it met,
\* whether it threw, A's members and block before it, and the allocator calls
\* it made.

\* Longest B, and largest size A is grown to, in the recorded runs.
MaxCallLen == 2

\* Largest number of element constructions that succeed before one throws.
MaxBad == 1

NoFaults == {[oom |-> FALSE, bad |-> NoFault]}
Faults ==
    NoFaults \cup {[oom |-> TRUE, bad |-> NoFault]}
             \cup {[oom |-> FALSE, bad |-> k] : k \in 0..MaxBad}

InitCalls ==
    \E nd \in BOOLEAN, ys \in SeqsUpTo(Values, MaxCallLen) :
        /\ Holds(range_ctor(NoState(nd), "B", Objects(ys)))
        /\ pushed = <<>>
        /\ cmp = NoCmp
        /\ trav = NoTrav
        /\ last = NoCall

\* The call op, given the input sequence seq and the faults f, takes the
\* program to state r.  The fault runs (F = Faults) keep the calls that threw.
Recorded(F, op, seq, f, r) ==
    /\ Commit(r)
    /\ last' = IF F = Faults /\ ~r.thrown
               THEN NoCall
               ELSE [op |-> op, seq |-> seq, oom |-> f.oom, bad |-> f.bad,
                     thrown |-> r.thrown, before |-> arr["A"], block |-> BlockOf("A"),
                     log |-> r.log]

Unfaulted == [oom |-> FALSE, bad |-> NoFault]

CallDefaultCtor(F) ==
    /\ ~arr["A"].alive
    /\ Recorded(F, "default_ctor", <<>>, Unfaulted, default_ctor(State, "A"))

CallCountCtor(F) ==
    \E n \in 0..MaxCallLen, v \in Values, f \in F :
        /\ ~arr["A"].alive
        /\ Recorded(F, "count_ctor", [k \in 1..n |-> Obj(v)], f,
                    count_ctor(Faulty(State, f.oom, f.bad), "A", n, v))

CallRangeCtor(F) ==
    \E seq \in SeqsUpTo(Values, MaxCallLen), f \in F :
        /\ ~arr["A"].alive
        /\ Recorded(F, "range_ctor", Objects(seq), f,
                    range_ctor(Faulty(State, f.oom, f.bad), "A", Objects(seq)))

CallCopyCtor(F) ==
    \E f \in F :
        /\ ~arr["A"].alive
        /\ Recorded(F, "copy_ctor", Contents("B"), f,
                    copy_ctor(Faulty(State, f.oom, f.bad), "A", "B"))

\* A = B.slice(first, last), for the bounds the documentation allows.
CallSlice(F) ==
    \E first \in 0..MaxCallLen, l \in 0..MaxCallLen, f \in F :
        /\ ~arr["A"].alive
        /\ first <= l
        /\ l <= arr["B"].m_size
        /\ Recorded(F, "slice", range(State, arr["B"].m_begin, first, l), f,
                    slice(Faulty(State, f.oom, f.bad), "B", "A", first, l))

CallDtor(F) ==
    /\ arr["A"].alive
    /\ Recorded(F, "dtor", <<>>, Unfaulted, dtor(State, "A"))

CallCopyAssign(F) ==
    \E f \in F :
        /\ arr["A"].alive
        /\ Recorded(F, "copy_assign", Contents("B"), f,
                    copy_assign(Faulty(State, f.oom, f.bad), "A", "B"))

CallReserve(F) ==
    \E n \in 0..MaxReserve, f \in F :
        /\ arr["A"].alive
        /\ Recorded(F, "reserve", <<n>>, f, reserve(Faulty(State, f.oom, f.bad), "A", n))

CallShrinkToFit(F) ==
    \E f \in F :
        /\ arr["A"].alive
        /\ Recorded(F, "shrink_to_fit", <<>>, f, shrink_to_fit(Faulty(State, f.oom, f.bad), "A"))

CallPushBack(F) ==
    \E v \in Values, f \in F :
        /\ arr["A"].alive
        /\ arr["A"].m_size < MaxCallLen
        /\ Recorded(F, "push_back", <<Obj(v)>>, f, push_back(Faulty(State, f.oom, f.bad), "A", v))

CallPopBack(F) ==
    /\ arr["A"].alive
    /\ arr["A"].m_size > 0
    /\ Recorded(F, "pop_back", <<>>, Unfaulted, pop_back(State, "A"))

CallRemoveAt(F) ==
    \E idx \in 0..MaxCallLen :
        /\ arr["A"].alive
        /\ idx < arr["A"].m_size
        /\ Recorded(F, "remove_at", <<idx>>, Unfaulted, remove_at(State, "A", idx))

CallResize(F) ==
    \E n \in 0..MaxCallLen, f \in F :
        /\ arr["A"].alive
        /\ Recorded(F, "resize", <<n>>, f, resize(Faulty(State, f.oom, f.bad), "A", n))

CallClear(F) ==
    /\ arr["A"].alive
    /\ Recorded(F, "clear", <<>>, Unfaulted, clear(State, "A"))

\* The program has not aborted, no exception has reached the caller (a run is
\* followed up to the first one) and the allocator has a block left to hand out.
Running ==
    /\ ~Aborted(State)
    /\ (IF last.op = "none" THEN TRUE ELSE ~last.thrown)
    /\ \E a \in Addrs : ~heap[a].used
    /\ UNCHANGED <<pushed, cmp, trav>>

NextCalls ==
    \/ Running /\ CallDefaultCtor(NoFaults)
    \/ Running /\ CallCountCtor(NoFaults)
    \/ Running /\ CallRangeCtor(NoFaults)
    \/ Running /\ CallCopyCtor(NoFaults)
    \/ Running /\ CallSlice(NoFaults)
    \/ Running /\ CallDtor(NoFaults)
    \/ Running /\ CallCopyAssign(NoFaults)
    \/ Running /\ CallReserve(NoFaults)
    \/ Running /\ CallShrinkToFit(NoFaults)
    \/ Running /\ CallPushBack(NoFaults)
    \/ Running /\ CallPopBack(NoFaults)
    \/ Running /\ CallRemoveAt(NoFaults)
    \/ Running /\ CallResize(NoFaults)
    \/ Running /\ CallClear(NoFaults)

SpecCalls == InitCalls /\ [][NextCalls]_vars

---------------------------------------------------------------------------
\* Fault runs: the recorded runs, with calls in which allocate() or an
\* element's constructor throws.

NextFault ==
    \/ Running /\ CallDefaultCtor(Faults)
    \/ Running /\ CallCountCtor(Faults)
    \/ Running /\ CallRangeCtor(Faults)
    \/ Running /\ CallCopyCtor(Faults)
    \/ Running /\ CallSlice(Faults)
    \/ Running /\ CallDtor(Faults)
    \/ Running /\ CallCopyAssign(Faults)
    \/ Running /\ CallReserve(Faults)
    \/ Running /\ CallShrinkToFit(Faults)
    \/ Running /\ CallPushBack(Faults)
    \/ Running /\ CallPopBack(Faults)
    \/ Running /\ CallRemoveAt(Faults)
    \/ Running /\ CallResize(Faults)
    \/ Running /\ CallClear(Faults)

SpecFault == InitCalls /\ [][NextFault]_vars

\* C11: a call of push_back, reserve, shrink_to_fit, resize or copy assignment
\* in which allocate() throws leaves the container as it was before the call:
\* pointer, size, capacity, and the block with its elements.
C11_AllocFailureLeavesUnchanged ==
    (/\ last.op \in {"push_back", "reserve", "shrink_to_fit", "resize", "copy_assign"}
     /\ last.oom
     /\ last.thrown) =>
        /\ arr["A"] = last.before
        /\ BlockOf("A") = last.block

\* C12: when an element's constructor throws during a bulk fill or copy (count,
\* range, initializer-list and copy constructor, slice, copy assignment, the
\* moves of a reallocation), every element the call constructed has been
\* destroyed and every block in use belongs to a container that exists.
C12_ConstructFailureRollsBack ==
    (/\ last.op \in {"count_ctor", "range_ctor", "slice", "copy_ctor", "copy_assign",
                     "reserve", "shrink_to_fit"}
     /\ last.bad # NoFault
     /\ last.thrown) =>
        /\ \A k \in 1..Len(last.log) :
               last.log[k].call = "construct" =>
                   ~IsObject(slot(State, last.log[k].p, last.log[k].n))
        /\ \A p \in Addrs :
               heap[p].used => \E c \in Names : arr[c].alive /\ arr[c].m_begin = p

\* C13: ~dyn_array on a container with a buffer calls destroy once on each of
\* the slots 0, 1, ..., size-1, in increasing order, and deallocates the buffer
\* after the last of them; with a null pointer it calls neither.
C13_DestructionOrder ==
    last.op = "dtor" =>
        IF last.before.m_begin = Null
        THEN last.log = <<>>
        ELSE /\ Len(last.log) = last.before.m_size + 1
             /\ \A k \in 1..last.before.m_size :
                    /\ last.log[k].call = "destroy"
                    /\ last.log[k].p = last.before.m_begin
                    /\ last.log[k].n = k - 1
             /\ last.log[Len(last.log)].call = "deallocate"
             /\ last.log[Len(last.log)].p = last.before.m_begin
             /\ ~arr["A"].alive

\* C13 witness: the destructor of a container of two elements has run: two
\* destroy calls and one deallocate.
C13_Witness ==
    /\ last.op = "dtor"
    /\ last.before.m_size = 2
    /\ Len(last.log) = 3
    /\ ~heap[last.before.m_begin].used

\* The elements of the container whose fields are a and whose block is b.
ElementsOf(a, b) == [k \in 1..a.m_size |-> b.slots[k]]

\* Container c has in state s capacity equal to size, and the size and the
\* elements of the container with fields a and block b.
FitsAs(s, c, a, b) ==
    /\ s.arr[c].m_cap = s.arr[c].m_size
    /\ s.arr[c].m_size = a.m_size
    /\ ContentsIn(s, c) = ElementsOf(a, b)
    /\ ~s.thrown

\* C14: after reserve(n), for every n, shrink_to_fit() leaves cap() == size(),
\* with the size and the elements the container had before reserve(n).
C14_ReserveThenShrink ==
    last.op = "reserve" => FitsAs(shrink_to_fit(State, "A"), "A", last.before, last.block)

\* C14 witness: reserve(3) has moved two elements into a block of three, which
\* shrink_to_fit() is to replace by a block of two.
C14_Witness ==
    /\ last.op = "reserve"
    /\ last.seq = <<3>>
    /\ last.before.m_size = 2
    /\ last.before.m_cap < 3
    /\ arr["A"].m_cap = 3
    /\ shrink_to_fit(State, "A").arr["A"].m_cap = 2

\* C15: after every call, a container whose cap() is 0 has a null pointer.
C15_ZeroCapIsNull ==
    \A c \in Names :
        (arr[c].alive /\ arr[c].m_cap = 0) => arr[c].m_begin = Null

\* The call `call` on pointer p with count or index n is the k-th call of the
\* last operation.
IsCall(k, call, p, n) ==
    /\ last.log[k].call = call
    /\ last.log[k].p = p
    /\ last.log[k].n = n

\* C16: a push_back, reserve, shrink_to_fit or resize that replaces the buffer
\* (it calls allocate) constructs every element of the old buffer in the new
\* buffer at the same index, then destroys it in the old buffer, and
\* deallocates the old buffer after that.
C16_ReallocDestroysOld ==
    (/\ last.op \in {"push_back", "reserve", "shrink_to_fit", "resize"}
     /\ last.before.m_begin # Null) =>
        \A a \in 1..Len(last.log) :
            last.log[a].call = "allocate" =>
                \A i \in 0..(last.before.m_size - 1) :
                    \E k1, k2, k3 \in 1..Len(last.log) :
                        /\ k1 < k2 /\ k2 < k3
                        /\ IsCall(k1, "construct", last.log[a].p, i)
                        /\ IsCall(k2, "destroy", last.before.m_begin, i)
                        /\ IsCall(k3, "deallocate", last.before.m_begin, last.log[k3].n)

\* C17: every deallocate(p, n) call is made on a block that is allocated (so
\* no block is deallocated twice) and passes the element count n that block
\* was allocated with.
C17_DeallocateMatchesAllocate ==
    last.op # "none" =>
        \A k \in 1..Len(last.log) :
            last.log[k].call = "deallocate" => last.log[k].n = last.log[k].of

\* C18: a container built from a sequence of n elements by the range
\* constructor, or by slice, has size n, capacity exactly n, and the elements
\* of the sequence in order.
C18_RangeCtorExactCap ==
    (last.op \in {"range_ctor", "slice"} /\ ~Aborted(State)) =>
        /\ arr["A"].alive
        /\ arr["A"].m_size = Len(last.seq)
        /\ arr["A"].m_cap = Len(last.seq)
        /\ Contents("A") = last.seq

\* C19: push_back, pop_back, remove_at, resize, reserve, clear and copy
\* assignment never lower cap(); resize(n) and reserve(n) with n > cap() set
\* it to exactly n; shrink_to_fit leaves it equal to size().
C19_CapLoweredOnlyByShrink ==
    (/\ last.op \in {"push_back", "pop_back", "remove_at", "resize", "reserve", "clear",
                      "copy_assign", "shrink_to_fit"}
     /\ ~Aborted(State)) =>
        /\ last.op # "shrink_to_fit" => arr["A"].m_cap >= last.before.m_cap
        /\ last.op = "shrink_to_fit" =>
               /\ arr["A"].m_cap = arr["A"].m_size
               /\ arr["A"].m_cap <= last.before.m_cap
        /\ (last.op \in {"resize", "reserve"} /\ last.seq[1] > last.before.m_cap) =>
               arr["A"].m_cap = last.seq[1]

\* C19 witness: resize(2) has grown a container without buffer to capacity 2.
C19_Witness ==
    /\ last.op = "resize"
    /\ last.seq = <<2>>
    /\ last.before.m_cap = 0
    /\ arr["A"].m_cap = 2
    /\ arr["A"].m_size = 2

\* The last operation called allocate or deallocate.
Replaced == \E k \in 1..Len(last.log) : last.log[k].call \in {"allocate", "deallocate"}

\* C20: copy assignment from a source of any size to a destination in any
\* state (null pointer included) trips no assertion, leaves the source as it
\* was, gives the destination the source's size and elements in order, keeps
\* the destination's buffer when its capacity is at least the source's size
\* and replaces it otherwise.
C20_CopyAssignAnyPair ==
    last.op = "copy_assign" =>
        /\ trap \cap AssertTags = {}
        /\ Contents("B") = last.seq
        /\ arr["A"].m_size = arr["B"].m_size
        /\ Contents("A") = Contents("B")
        /\ Replaced <=> last.before.m_cap < arr["B"].m_size
        /\ ~Replaced => arr["A"].m_begin = last.before.m_begin

====
